---- MODULE Spec2Model ----
(***************************************************************************)
(* dedlink: deduplicate the regular files of a tree by moving one copy of  *)
(* each content into a store directory (named by the SHA-512 of the        *)
(* content) and replacing the files by symbolic links to it.               *)
(*                                                                         *)
(* The model follows src/src/main.rs: the filesystem is a map from         *)
(* locations to nodes, one run of main is a chain of the actions ScanFile, *)
(* EndScan, BeginGroup, ReplaceRemove, ReplaceSymlink, Verify and Finish,  *)
(* and Restart starts main again on the filesystem the previous run left   *)
(* behind.                                                                 *)
(***************************************************************************)
EXTENDS Naturals, Sequences, FiniteSets, TLC

VARIABLES
    args,             \* Args: files, deduplication_folder, dry_run
    fs,               \* the filesystem: location -> node
    pc,               \* position of main
    outcome,          \* "running", then how the process ended: "ok", "err", "panic"
    walked,           \* locations WalkDir has yielded so far
    last,             \* the location WalkDir yielded last
    files_by_hashes,  \* HashMap<Sha512Hash, Vec<DirEntry>>
    processed,        \* keys the replace loop has finished iterating
    hash,             \* key of the group being replaced
    dedup_file,       \* output_folder.join(format!("{hash}"))
    idx,              \* position of identical_file in files
    relative_path,    \* replace_with_symlink's relative_path
    post_hash,        \* hash_file(identical_file.path()) after the link
    runs,             \* how many times main has been started
    prev,             \* how the previous run ended: "none", "dry", "ok", "err", "panic"
    fs0               \* the filesystem as it was when this run started

vars == <<args, fs, pc, outcome, walked, last, files_by_hashes, processed, hash,
          dedup_file, idx, relative_path, post_hash, runs, prev, fs0>>

---------------------------------------------------------------------------
(* Bounds of the model *)

\* file contents are 1..NumContents
NumContents == 3
\* main is started at most MaxRuns times on the same filesystem
MaxRuns == 3
\* symbolic links followed by one open() before it gives up with ELOOP
MaxLinkDepth == 2

Contents == 1..NumContents

---------------------------------------------------------------------------
(* Paths.  A Path is what the program holds (absolute or relative, a       *)
(* sequence of components); a location is the sequence of components      *)
(* from the working directory, which the model takes to be the root, so    *)
(* that a relative and an absolute path with equal components name the     *)
(* same location.                                                          *)

MkPath(a, cs) == [abs |-> a, comps |-> cs]
NoPath == MkPath(FALSE, <<>>)

\* Path::parent
Parent(p) == MkPath(p.abs, SubSeq(p.comps, 1, Len(p.comps) - 1))

\* Path::join with one component
Join(p, name) == MkPath(p.abs, p.comps \o <<name>>)

IsPrefix(s, t) == Len(s) <= Len(t) /\ SubSeq(t, 1, Len(s)) = s

TreeRoot == <<"t">>
FileLocs == {<<"t", "a">>, <<"t", "b">>, <<"t", "d", "c">>}
StoreRoots == {<<"s">>, <<"t", "s">>}

---------------------------------------------------------------------------
(* Hashes.  SHA-512 is modelled as an injective map from contents to byte  *)
(* sequences; Display is the program's rendering of a hash.                *)

HashTable == << <<1, 16>>, <<171, 205>>, <<17, 0>>, <<2, 52>> >>

Sha512(c) == IF c <= Len(HashTable) THEN HashTable[c] ELSE <<c, c>>

NoHash == <<>>

HexDigits == <<"0", "1", "2", "3", "4", "5", "6", "7",
               "8", "9", "a", "b", "c", "d", "e", "f">>

\* write!(f, "{byte:x}"): lowercase hexadecimal without padding
FmtByteLowerHex(byte) ==
    IF byte < 16 THEN HexDigits[byte + 1]
    ELSE HexDigits[(byte \div 16) + 1] \o HexDigits[(byte % 16) + 1]

RECURSIVE Display(_)
Display(h) ==
    IF h = <<>> THEN "" ELSE FmtByteLowerHex(Head(h)) \o Display(Tail(h))

HexNames == {Display(Sha512(c)) : c \in Contents}

Locs == FileLocs \cup StoreRoots
        \cup {r \o <<n>> : r \in StoreRoots, n \in HexNames}

---------------------------------------------------------------------------
(* Filesystem nodes *)

Absent == [kind |-> "none", content |-> 0, target |-> NoPath, readable |-> TRUE]
RegFile(c, r) == [kind |-> "file", content |-> c, target |-> NoPath, readable |-> r]
SymLink(t) == [kind |-> "link", content |-> 0, target |-> t, readable |-> TRUE]
Dir == [kind |-> "dir", content |-> 0, target |-> NoPath, readable |-> TRUE]

NodeAt(f, loc) == IF loc \in DOMAIN f THEN f[loc] ELSE Absent

\* lexical resolution of ".." (no directory of the model is a link)
RECURSIVE Normalize(_, _)
Normalize(cs, acc) ==
    IF cs = <<>> THEN acc
    ELSE IF Head(cs) = ".."
         THEN Normalize(Tail(cs),
                        IF acc = <<>> THEN acc ELSE SubSeq(acc, 1, Len(acc) - 1))
         ELSE Normalize(Tail(cs), Append(acc, Head(cs)))

\* where the link at loc with target t points
LinkDest(loc, t) ==
    IF t.abs THEN Normalize(t.comps, <<>>)
    ELSE Normalize(SubSeq(loc, 1, Len(loc) - 1) \o t.comps, <<>>)

\* path resolution as open() and stat() do it: follow links
RECURSIVE Resolve(_, _, _)
Resolve(f, loc, fuel) ==
    LET n == NodeAt(f, loc) IN
    CASE n.kind = "file" -> [status |-> "ok", loc |-> loc]
      [] n.kind = "dir"  -> [status |-> "isdir", loc |-> loc]
      [] n.kind = "none" -> [status |-> "enoent", loc |-> loc]
      [] n.kind = "link" ->
            IF fuel = 0 THEN [status |-> "eloop", loc |-> loc]
            ELSE Resolve(f, LinkDest(loc, n.target), fuel - 1)

---------------------------------------------------------------------------
(* The filesystem calls the program makes *)

\* hash_file: open the path (following links), read it all, digest it;
\* NoHash stands for the Err the function returns
hash_file(f, p) ==
    LET r == Resolve(f, p.comps, MaxLinkDepth) IN
    IF r.status = "ok" /\ f[r.loc].readable
    THEN Sha512(f[r.loc].content)
    ELSE NoHash

\* fs::try_exists: Ok(true), Ok(false) for NotFound, Err for anything else
try_exists(f, p) ==
    LET r == Resolve(f, p.comps, MaxLinkDepth) IN
    CASE r.status \in {"ok", "isdir"} -> "true"
      [] r.status = "enoent" -> "false"
      [] OTHER -> "err"

\* fs::create_dir_all
create_dir_all(f, p) == [f EXCEPT ![p.comps] = Dir]

\* fs::rename: the node moves, the link or file at the destination is replaced
rename(f, from, to) == [f EXCEPT ![to.comps] = f[from.comps], ![from.comps] = Absent]

\* fs::remove_file succeeds on a file or a link and fails on anything else
can_remove_file(f, p) == NodeAt(f, p.comps).kind \in {"file", "link"}
remove_file(f, p) == [f EXCEPT ![p.comps] = Absent]

\* fs::symlink fails when something is at the link's path
can_symlink(f, p) == NodeAt(f, p.comps).kind = "none"
symlink(f, target, p) == [f EXCEPT ![p.comps] = SymLink(target)]

\* pathdiff::diff_paths(path, base): the loop over the two component lists
RECURSIVE DiffLoop(_, _, _)
DiffLoop(a, b, comps) ==
    CASE a = <<>> /\ b = <<>> -> [ok |-> TRUE, comps |-> comps]
      [] a # <<>> /\ b = <<>> -> [ok |-> TRUE, comps |-> comps \o a]
      [] a = <<>> /\ b # <<>> -> DiffLoop(a, Tail(b), Append(comps, ".."))
      [] OTHER ->
            IF comps = <<>> /\ Head(a) = Head(b) THEN DiffLoop(Tail(a), Tail(b), comps)
            ELSE IF Head(b) = "." THEN DiffLoop(Tail(a), Tail(b), Append(comps, Head(a)))
            ELSE IF Head(b) = ".." THEN [ok |-> FALSE, comps |-> <<>>]
            ELSE [ok |-> TRUE,
                  comps |-> comps \o [i \in 1..Len(b) |-> ".."] \o a]

\* a diff_paths that gives back the destination as an absolute path
diff_paths_absolute(path, base) == [ok |-> TRUE, path |-> MkPath(TRUE, path.comps)]

\* diff_paths(destination, to_replace.parent()): None is ok = FALSE
diff_paths(path, base) ==
    IF path.abs # base.abs
    THEN IF path.abs THEN [ok |-> TRUE, path |-> path]
                     ELSE [ok |-> FALSE, path |-> NoPath]
    ELSE LET d == DiffLoop(path.comps, base.comps, <<>>) IN
         [ok |-> d.ok, path |-> MkPath(FALSE, d.comps)]

---------------------------------------------------------------------------
(* The initial states: a tree of regular files, at most one of them        *)
(* unreadable, no store yet, and the arguments of the first run.           *)

ArgsSet ==
    {[files |-> MkPath(fa, TreeRoot), deduplication_folder |-> MkPath(sa, r),
      dry_run |-> d] : fa \in BOOLEAN, sa \in BOOLEAN, r \in StoreRoots, d \in BOOLEAN}

TreeNodes == {Absent} \cup {RegFile(c, r) : c \in Contents, r \in BOOLEAN}

InitialFs ==
    {[l \in Locs |-> IF l \in FileLocs THEN t[l] ELSE Absent] :
        t \in {u \in [FileLocs -> TreeNodes] :
                  Cardinality({l \in FileLocs : ~u[l].readable}) <= 1}}

Init ==
    /\ args \in ArgsSet
    /\ fs \in InitialFs
    /\ fs0 = fs
    /\ pc = "scan"
    /\ outcome = "running"
    /\ walked = {}
    /\ last = <<>>
    /\ files_by_hashes = <<>>
    /\ processed = {}
    /\ hash = NoHash
    /\ dedup_file = NoPath
    /\ idx = 0
    /\ relative_path = NoPath
    /\ post_hash = NoHash
    /\ runs = 1
    /\ prev = "none"

---------------------------------------------------------------------------
(* main *)

\* an error that is dropped: main returns Ok
PropagateAsOk ==
    /\ pc' = "done"
    /\ outcome' = "ok"

\* the `?` of main: the error is returned and the process exits non-zero
Propagate ==
    /\ pc' = "done"
    /\ outcome' = "err"

\* the regular files WalkDir can still yield: entry.file_type().is_file()
\* is false for a link, WalkDir does not follow links
Unwalked ==
    {l \in DOMAIN fs : /\ IsPrefix(args.files.comps, l)
                       /\ fs[l].kind = "file"
                       /\ l \notin walked}

Dirname(l) == SubSeq(l, 1, Len(l) - 1)

\* WalkDir is depth first: a directory below the root is finished before
\* the walk returns to its parent; the order inside a directory is the
\* order readdir gives, which is any
WalkNext ==
    LET here == {l \in Unwalked : Dirname(l) = Dirname(last)} IN
    IF last # <<>> /\ Dirname(last) # args.files.comps /\ here # {}
    THEN here ELSE Unwalked

\* a map that puts the new entry in front of the entries of its hash
RecordInFront(m, h, p) ==
    IF h \in DOMAIN m THEN [m EXCEPT ![h] = <<p>> \o @]
    ELSE (h :> <<p>>) @@ m

\* files_by_hashes.entry(hash).or_default().push(entry)
Record(m, h, p) ==
    IF h \in DOMAIN m THEN [m EXCEPT ![h] = Append(@, p)]
    ELSE (h :> <<p>>) @@ m

\* a scan that takes the failure of hash_file for a hash like any other
IsErrNever(h) == FALSE

\* line 63: the `?` on the result of hash_file in the scan loop
IsErr(h) == h = NoHash

\* lines 61-67: one iteration of the scan loop
ScanFile ==
    /\ pc = "scan"
    /\ \E l \in WalkNext :
          LET entry == MkPath(args.files.abs, l)
              h == hash_file(fs, entry) IN
          /\ walked' = walked \cup {l}
          /\ last' = l
          /\ IF IsErr(h)
             THEN Propagate /\ UNCHANGED files_by_hashes
             ELSE /\ files_by_hashes' = Record(files_by_hashes, h, entry)
                  /\ UNCHANGED <<pc, outcome>>
    /\ UNCHANGED <<args, fs, processed, hash, dedup_file, idx, relative_path,
                   post_hash, runs, prev, fs0>>

\* a scan loop that can be left while the walk has files to yield
ScanLoopDoneEarly == TRUE

\* line 61: the iterator of the scan loop has no more entry
ScanLoopDone == Unwalked = {}

\* a run that does not look at the flag
IsDryRunIgnored == FALSE

\* line 78
IsDryRun == args.dry_run

\* lines 69-83: the scan loop has ended; a dry run returns Ok, any other
\* run creates the output folder
EndScan ==
    /\ pc = "scan"
    /\ ScanLoopDone
    /\ IF IsDryRun
       THEN /\ pc' = "done"
            /\ outcome' = "ok"
            /\ UNCHANGED fs
       ELSE /\ fs' = create_dir_all(fs, args.deduplication_folder)
            /\ pc' = "replace"
            /\ UNCHANGED outcome
    /\ UNCHANGED <<args, walked, last, files_by_hashes, processed, hash, dedup_file,
                   idx, relative_path, post_hash, runs, prev, fs0>>

\* lines 85-92: the next (hash, files) of the map, in the map's order, which
\* is any; the first file is renamed into the store unless the store path exists
BeginGroup ==
    /\ pc = "replace"
    /\ \E h \in DOMAIN files_by_hashes \ processed :
          LET files == files_by_hashes[h]
              dest == Join(args.deduplication_folder, Display(h))
              there == try_exists(fs, dest) IN
          /\ hash' = h
          /\ post_hash' = NoHash
          /\ IF Len(files) = 0
             THEN /\ processed' = processed \cup {h}
                  /\ UNCHANGED <<fs, pc, outcome, dedup_file, idx>>
             ELSE /\ dedup_file' = dest
                  /\ idx' = 1
                  /\ UNCHANGED processed
                  /\ CASE there = "err" -> Propagate /\ UNCHANGED fs
                       [] there = "true" ->
                            /\ pc' = "member"
                            /\ UNCHANGED <<fs, outcome>>
                       [] there = "false" ->
                            /\ fs' = rename(fs, files[1], dest)
                            /\ pc' = "member"
                            /\ UNCHANGED outcome
    /\ UNCHANGED <<args, walked, last, files_by_hashes, relative_path, runs,
                   prev, fs0>>

\* identical_file of the loop of line 94
Member == files_by_hashes[hash][idx]

\* lines 94-96 and 111-119: the loop over the files of the group ends, or
\* replace_with_symlink computes the relative path and removes the file
ReplaceRemove ==
    /\ pc = "member"
    /\ IF idx > Len(files_by_hashes[hash])
       THEN /\ processed' = processed \cup {hash}
            /\ pc' = "replace"
            /\ UNCHANGED <<fs, outcome, relative_path>>
       ELSE LET rel == diff_paths(dedup_file, Parent(Member)) IN
            /\ UNCHANGED processed
            /\ IF ~rel.ok
               THEN Propagate /\ UNCHANGED <<fs, relative_path>>
               ELSE /\ relative_path' = rel.path
                    /\ IF can_remove_file(fs, Member)
                       THEN /\ fs' = remove_file(fs, Member)
                            /\ pc' = "symlink"
                            /\ UNCHANGED outcome
                       ELSE Propagate /\ UNCHANGED fs
    /\ UNCHANGED <<args, walked, last, files_by_hashes, hash, dedup_file, idx,
                   post_hash, runs, prev, fs0>>

\* lines 120-123
ReplaceSymlink ==
    /\ pc = "symlink"
    /\ IF can_symlink(fs, Member)
       THEN /\ fs' = symlink(fs, relative_path, Member)
            /\ pc' = "verify"
            /\ UNCHANGED outcome
       ELSE Propagate /\ UNCHANGED fs
    /\ UNCHANGED <<args, walked, last, files_by_hashes, processed, hash, dedup_file,
                   idx, relative_path, post_hash, runs, prev, fs0>>

\* a comparison that always passes
AssertEqAlways(h, ph) == TRUE

\* line 98: assert_eq!(hash, &post_hash)
AssertEq(h, ph) == h = ph

\* lines 97-99: the file is hashed again through the link; a failed
\* assertion panics
Verify ==
    /\ pc = "verify"
    /\ LET ph == hash_file(fs, Member) IN
       /\ post_hash' = ph
       /\ IF ph = NoHash
          THEN Propagate /\ UNCHANGED idx
          ELSE IF AssertEq(hash, ph)
               THEN /\ idx' = idx + 1
                    /\ pc' = "member"
                    /\ UNCHANGED outcome
               ELSE /\ pc' = "done"
                    /\ outcome' = "panic"
                    /\ UNCHANGED idx
    /\ UNCHANGED <<args, fs, walked, last, files_by_hashes, processed, hash,
                   dedup_file, relative_path, runs, prev, fs0>>

\* lines 104-108: the loop over the map has ended, main returns Ok
Finish ==
    /\ pc = "replace"
    /\ DOMAIN files_by_hashes \ processed = {}
    /\ pc' = "done"
    /\ outcome' = "ok"
    /\ UNCHANGED <<args, fs, walked, last, files_by_hashes, processed, hash,
                   dedup_file, idx, relative_path, post_hash, runs, prev, fs0>>

\* the program is run again with the same paths on what the last run left
Restart ==
    /\ pc = "done"
    /\ runs < MaxRuns
    /\ \E d \in BOOLEAN : args' = [args EXCEPT !.dry_run = d]
    /\ runs' = runs + 1
    /\ prev' = IF args.dry_run THEN "dry" ELSE outcome
    /\ fs0' = fs
    /\ pc' = "scan"
    /\ outcome' = "running"
    /\ walked' = {}
    /\ last' = <<>>
    /\ files_by_hashes' = <<>>
    /\ processed' = {}
    /\ hash' = NoHash
    /\ dedup_file' = NoPath
    /\ idx' = 0
    /\ relative_path' = NoPath
    /\ post_hash' = NoHash
    /\ UNCHANGED fs

Next ==
    \/ ScanFile
    \/ EndScan
    \/ BeginGroup
    \/ ReplaceRemove
    \/ ReplaceSymlink
    \/ Verify
    \/ Finish
    \/ Restart

Spec == Init /\ [][Next]_vars

---------------------------------------------------------------------------
(* Vocabulary of the properties *)

\* the keys of the map and the members of a group
Groups == DOMAIN files_by_hashes
Members(h) == {files_by_hashes[h][i] : i \in 1..Len(files_by_hashes[h])}
Scanned == UNION {Members(h) : h \in Groups}

\* the scan loop ended with an error of hash_file
ScanFailed == pc = "done" /\ outcome = "err" /\ hash = NoHash
\* the scan loop ran to its end
ScanComplete == pc # "scan" /\ ~ScanFailed
\* a run that went past the dry-run return: the replace phase
RealRun == ~args.dry_run /\ ScanComplete
Terminal == pc = "done"

\* the store path of a hash, as a location
StoreLoc(h) == args.deduplication_folder.comps \o <<Display(h)>>
InStore(l) == Dirname(l) = args.deduplication_folder.comps

\* what a reader gets through a location: the content of the regular file
\* the location resolves to, 0 when it resolves to none
ReadThrough(f, l) ==
    LET r == Resolve(f, l, MaxLinkDepth) IN
    IF r.status = "ok" THEN f[r.loc].content ELSE 0

\* the relative path between two locations: up from the directory to the
\* common ancestor, then down to the target
RECURSIVE RelComps(_, _)
RelComps(dir, to) ==
    IF dir # <<>> /\ to # <<>> /\ Head(dir) = Head(to)
    THEN RelComps(Tail(dir), Tail(to))
    ELSE [i \in 1..Len(dir) |-> ".."] \o to
RelativePath(dir, to) == MkPath(FALSE, RelComps(dir, to))

---------------------------------------------------------------------------
(* C1 *)

\* C1: in a run that is not a dry run, a scanned file that is alone in its
\* group is never touched by the replace phase: its location holds what it
\* held when the run started, and no store entry with its content appears.
C1_UniqueUntouched ==
    RealRun =>
        \A h \in Groups :
            Len(files_by_hashes[h]) = 1 =>
                LET l == files_by_hashes[h][1].comps IN
                /\ fs[l] = fs0[l]
                /\ fs0[StoreLoc(h)].kind = "none" => fs[StoreLoc(h)].kind = "none"

---------------------------------------------------------------------------
(* C2 *)

\* C2: when the run has ended, with success or with an error, reading
\* through every location the scan recorded gives the content the file
\* had when the run started.
C2_ContentPreserved ==
    Terminal =>
        \A p \in Scanned : ReadThrough(fs, p.comps) = fs0[p.comps].content

---------------------------------------------------------------------------
(* C3 *)

\* the store entry of a group is a regular file holding the group's content
StoreHolds(h) ==
    /\ fs[StoreLoc(h)].kind = "file"
    /\ Sha512(fs[StoreLoc(h)].content) = h

LinkTarget(p, h) ==
    IF args.deduplication_folder.abs /\ ~args.files.abs
    THEN MkPath(TRUE, StoreLoc(h))
    ELSE RelativePath(Dirname(p.comps), StoreLoc(h))

---------------------------------------------------------------------------
(* C4 *)

\* the regular files below the scanned root when the run started, by hash
FilesUnderRoot(f) ==
    {l \in DOMAIN f : IsPrefix(args.files.comps, l) /\ f[l].kind = "file"}
ExpectedGroup(f, h) ==
    {MkPath(args.files.abs, l) : l \in {k \in FilesUnderRoot(f) : Sha512(f[k].content) = h}}

\* the map holds, for every hash of a file below the root, exactly the files
\* of that hash, each once
MapGroups(f) ==
    /\ Groups = {Sha512(f[l].content) : l \in FilesUnderRoot(f)}
    /\ \A h \in Groups :
          /\ Members(h) = ExpectedGroup(f, h)
          /\ Len(files_by_hashes[h]) = Cardinality(ExpectedGroup(f, h))

\* C4: a dry run changes nothing in the filesystem in any of its states (the
\* store directory is not created, nothing is renamed, removed or linked),
\* and the map the scan has built, in a dry run as in any other run, is the
\* grouping of the files that were below the root when the run started: the
\* map a dry run ends with is the one a real run acts on.
C4_DryRunPure ==
    /\ args.dry_run => fs = fs0
    /\ ScanComplete => MapGroups(fs0)

\* a dry run has ended and its map holds a group of two files, no store exists
C4_Witness ==
    /\ args.dry_run /\ Terminal /\ outcome = "ok"
    /\ \E h \in Groups : Len(files_by_hashes[h]) > 1
    /\ fs[args.deduplication_folder.comps].kind = "none"

---------------------------------------------------------------------------
(* C5 *)

\* the replace loop has reached the group: it is the current one or a
\* finished one
Attempted(h) == h \in processed \/ h = hash

\* C5: once the scan and the creation of the store root have succeeded, a
\* failure in one group does not end the run: when the run has ended, the
\* replacement of every group of more than one member has been run.
C5_FailureIsolated ==
    (Terminal /\ RealRun) =>
        \A h \in Groups : Len(files_by_hashes[h]) > 1 => Attempted(h)

---------------------------------------------------------------------------
(* C6 *)

IsLink(f, l) == f[l].kind = "link"

\* C6: a run on what an earlier run that was not a dry run left behind ends
\* with the store entries and the symbolic links exactly as that run left
\* them.
C6_Idempotent ==
    (Terminal /\ ~args.dry_run /\ prev \in {"ok", "err", "panic"}) =>
        \A l \in DOMAIN fs :
            (InStore(l) \/ IsLink(fs, l) \/ IsLink(fs0, l)) => fs[l] = fs0[l]

---------------------------------------------------------------------------
(* C7 *)

\* C7: a store entry that exists is not removed, replaced or changed by any
\* later step of the run (the store holds one entry per hash by its naming).
C7_StoreWriteOnce ==
    [][\A l \in DOMAIN fs :
          (InStore(l) /\ fs[l].kind # "none") => fs'[l] = fs[l]]_vars

---------------------------------------------------------------------------
(* C8 *)

\* the hash taken through the member's location after the link differs
\* from the group's hash
Mismatch == post_hash # NoHash /\ post_hash # hash

\* C8: a hash taken through a linked member that differs from the group's
\* hash ends the run at once with an error outcome: main is at its end, the
\* outcome is the panic, the member is the last one the group has handled
\* and the group is not counted as finished.
C8_MismatchNotSilent ==
    Mismatch =>
        /\ Terminal
        /\ outcome = "panic"
        /\ hash \notin processed
        /\ \A j \in (idx + 1)..Len(files_by_hashes[hash]) :
              fs[files_by_hashes[hash][j].comps] = fs0[files_by_hashes[hash][j].comps]

\* a member was linked to a store entry that holds another content
C8_Witness ==
    /\ Mismatch
    /\ fs[Member.comps].kind = "link"
    /\ ReadThrough(fs, Member.comps) # fs0[Member.comps].content

---------------------------------------------------------------------------
(* C9 *)

\* no relative path can be computed for the member of the group at j
NoRelativePath(j) ==
    ~diff_paths(dedup_file, Parent(files_by_hashes[hash][j])).ok

\* the member at j is a link that resolves to the store entry of the group
LinkedToStore(j) ==
    LET l == files_by_hashes[hash][j].comps IN
    /\ fs[l].kind = "link"
    /\ Resolve(fs, l, MaxLinkDepth) = [status |-> "ok", loc |-> dedup_file.comps]

\* C9: when the run has ended and no relative path could be computed for a
\* member of a group the replace loop reached, that member is as it was
\* when the run started, and every other member of the group for which a
\* relative path can be computed is a link to the store entry.
C9_RelativizationLocal ==
    (Terminal /\ RealRun /\ hash # NoHash) =>
        \A j \in 1..Len(files_by_hashes[hash]) :
            IF NoRelativePath(j)
            THEN fs[files_by_hashes[hash][j].comps] = fs0[files_by_hashes[hash][j].comps]
            ELSE (\E k \in 1..Len(files_by_hashes[hash]) : NoRelativePath(k))
                     => LinkedToStore(j)

---------------------------------------------------------------------------
(* C10 *)

\* the group has been replaced: every member is a link through which the
\* group's hash is read
Replaced(h) ==
    \A p \in Members(h) : fs[p.comps].kind = "link" /\ hash_file(fs, p) = h

---------------------------------------------------------------------------
(* C11 *)

\* the group being replaced found no store entry: its first member is the
\* file that now is the store entry
MovedFirst ==
    /\ RealRun /\ hash # NoHash
    /\ fs0[StoreLoc(hash)].kind = "none"
    /\ fs[StoreLoc(hash)].kind = "file"
    /\ fs[StoreLoc(hash)] = fs0[files_by_hashes[hash][1].comps]

\* C11: when the store holds no entry for the hash of a group, the first
\* member is renamed into the store and the link is created at the place it
\* left without a removal there: the run does not end with an error at the
\* first member, whose location holds the link to the store entry.
C11_MovedFirstLinked ==
    (Terminal /\ MovedFirst /\ ~NoRelativePath(1)) =>
        /\ ~(outcome = "err" /\ idx = 1)
        /\ fs[files_by_hashes[hash][1].comps].kind = "link"

---------------------------------------------------------------------------
(* C12 *)

\* the main loop is between two groups, or before the first, or after the last
GroupBoundary == pc = "replace"

\* a processed group is fully deduplicated: its store entry is there with the
\* group's content and every member is a link that resolves to it
Deduplicated(h) ==
    /\ StoreHolds(h)
    /\ \A p \in Members(h) :
           /\ fs[p.comps].kind = "link"
           /\ Resolve(fs, p.comps, MaxLinkDepth) =
                  [status |-> "ok", loc |-> StoreLoc(h)]

\* a group not yet processed is as the run found it
Untouched(h) ==
    \A p \in Members(h) : fs[p.comps] = fs0[p.comps] /\ fs[p.comps].kind = "file"

\* C12: at every boundary between two groups of the replace phase, each
\* group already processed is fully deduplicated and each group not yet
\* processed is untouched.
C12_BoundaryConsistent ==
    GroupBoundary =>
        \A h \in Groups : IF h \in processed THEN Deduplicated(h) ELSE Untouched(h)

\* a boundary with one group processed and another still to do
C12_Witness ==
    /\ GroupBoundary
    /\ processed # {}
    /\ Groups \ processed # {}

---------------------------------------------------------------------------
(* C13 *)

\* the group being replaced found its store entry in place: a regular file
\* at the store path when the run started
ReusesEntry ==
    /\ RealRun /\ hash # NoHash
    /\ fs0[StoreLoc(hash)].kind = "file"

\* C13: when an entry is already at the store path of a group, nothing is
\* renamed and the entry is left as it is, every member handled so far, the
\* first included, is a link in place of the removed file, and the group
\* ends replaced when the content of the entry matches the hash.
C13_ReuseExisting ==
    ReusesEntry =>
        /\ fs[StoreLoc(hash)] = fs0[StoreLoc(hash)]
        /\ \A j \in 1..Len(files_by_hashes[hash]) :
               j < idx => fs[files_by_hashes[hash][j].comps].kind = "link"
        /\ (/\ Terminal
            /\ Sha512(fs0[StoreLoc(hash)].content) = hash
            /\ \A j \in 1..Len(files_by_hashes[hash]) : ~NoRelativePath(j))
               => (hash \in processed /\ Replaced(hash))

---------------------------------------------------------------------------
(* C14 *)
(* The store path as a function of the hash, checked on its own: a hash is *)
(* drawn from the sequences of HashBytes bytes, and one step computes      *)
(* output_folder.join(format!("{hash}")) for it.                           *)

\* the width of the hashes drawn (64 in the program)
HashBytes == 2
ByteInputs == {0, 1, 2, 16, 17, 52, 171, 205}
HashInputs == [1..HashBytes -> ByteInputs]

InitDisplay ==
    /\ args \in ArgsSet
    /\ hash \in HashInputs
    /\ fs = [l \in Locs |-> Absent]
    /\ fs0 = fs
    /\ pc = "format"
    /\ outcome = "running"
    /\ walked = {}
    /\ last = <<>>
    /\ files_by_hashes = <<>>
    /\ processed = {}
    /\ dedup_file = NoPath
    /\ idx = 0
    /\ relative_path = NoPath
    /\ post_hash = NoHash
    /\ runs = 1
    /\ prev = "none"

\* let dedup_file = args.deduplication_folder.join(format!("{hash}"))
FormatStorePath ==
    /\ pc = "format"
    /\ dedup_file' = Join(args.deduplication_folder, Display(hash))
    /\ pc' = "formatted"
    /\ UNCHANGED <<args, fs, outcome, walked, last, files_by_hashes, processed,
                   hash, idx, relative_path, post_hash, runs, prev, fs0>>

NextDisplay == FormatStorePath

SpecDisplay == InitDisplay /\ [][NextDisplay]_vars

\* the lowercase hexadecimal encoding, two digits for every byte
RECURSIVE PaddedHex(_)
PaddedHex(h) ==
    IF h = <<>> THEN ""
    ELSE HexDigits[(Head(h) \div 16) + 1] \o HexDigits[(Head(h) % 16) + 1]
             \o PaddedHex(Tail(h))

\* C14: the store path of a hash is the store root joined with the lowercase
\* hexadecimal encoding of all the bytes of the hash, two digits per byte,
\* and no other hash has the same store path.
C14_StorePathInjective ==
    pc = "formatted" =>
        /\ dedup_file = Join(args.deduplication_folder, PaddedHex(hash))
        /\ \A h \in HashInputs :
               h # hash => Join(args.deduplication_folder, Display(h)) # dedup_file

---------------------------------------------------------------------------
(* C15 *)

\* C15: no step changes the filesystem before every file of the traversal
\* has been fingerprinted and recorded in the map, and no step changes the
\* map once the scan phase is over.
C15_PhaseOrder ==
    [][/\ fs' # fs => (pc' # "scan" /\ MapGroups(fs0))
       /\ (pc # "scan" /\ pc' # "scan") => files_by_hashes' = files_by_hashes]_vars

\* the replace phase has changed the filesystem of a tree with two groups
C15_Witness ==
    /\ pc = "member"
    /\ fs # fs0
    /\ Cardinality(Groups) > 1
    /\ \E h \in Groups : Len(files_by_hashes[h]) > 1

---------------------------------------------------------------------------
(* C16 *)

\* the traversal of this run has come to a file that hash_file cannot read
HashFailedInScan ==
    \E l \in walked : hash_file(fs0, MkPath(args.files.abs, l)) = NoHash

\* C16: when fingerprinting a traversed file fails during the scan, the run
\* has ended with an error, the replace phase was not entered and the
\* filesystem is exactly as the run found it.
C16_ScanErrorFatal ==
    HashFailedInScan =>
        /\ pc = "done" /\ outcome = "err"
        /\ hash = NoHash /\ processed = {}
        /\ fs = fs0

\* a run that is not a dry run failed in the scan after it recorded a file
C16_Witness ==
    /\ HashFailedInScan
    /\ ~args.dry_run
    /\ Groups # {}
    /\ Terminal

---------------------------------------------------------------------------
(* C17 *)

\* the list of a hash in a map, empty when the map has no such key
ListOf(m, h) == IF h \in DOMAIN m THEN m[h] ELSE <<>>

\* C17: when the scan has ended, every regular file of the traversal is in
\* exactly one group, the group of its own hash, and no path is in two
\* groups or twice in one; every step of the scan puts the file it found at
\* the end of the list of its hash and leaves the other lists alone, so the
\* lists are in discovery order; and the file a step of the replace phase
\* renames into the store is the first of its list, the first discovered.
C17_Grouping ==
    [][/\ (pc' # "scan" /\ ~ScanFailed') => MapGroups(fs0)'
       /\ (pc = "scan" /\ files_by_hashes' # files_by_hashes /\ pc' = "scan") =>
              LET e == MkPath(args.files.abs, last')
                  h == Sha512(fs[last'].content) IN
              /\ DOMAIN files_by_hashes' = DOMAIN files_by_hashes \cup {h}
              /\ \A g \in DOMAIN files_by_hashes' :
                     files_by_hashes'[g] =
                         IF g = h THEN Append(ListOf(files_by_hashes, h), e)
                         ELSE files_by_hashes[g]
       /\ (pc = "replace" /\ fs' # fs) =>
              /\ fs'[StoreLoc(hash')] = fs[files_by_hashes[hash'][1].comps]
              /\ fs'[files_by_hashes[hash'][1].comps] = Absent]_vars

\* the first of a group of two has been renamed into the store
C17_Witness ==
    /\ pc = "member"
    /\ Len(files_by_hashes[hash]) > 1
    /\ fs0[StoreLoc(hash)].kind = "none"
    /\ fs[StoreLoc(hash)] = fs0[files_by_hashes[hash][1].comps]

---------------------------------------------------------------------------
(* C18 *)

\* the locations replacing a group reads or changes: those of its members
\* and its store entry
Footprint(h) == {p.comps : p \in Members(h)} \cup {StoreLoc(h)}

\* C18: the locations the replacement of one group reads or changes are
\* disjoint from those of the replacement of any other group, so that the
\* groups can be replaced in any order with the same result.
C18_GroupsDisjoint ==
    ScanComplete =>
        \A g \in Groups : \A h \in Groups :
            g # h => Footprint(g) \cap Footprint(h) = {}

---------------------------------------------------------------------------
(* C19 *)

\* some regular file holds the content c
ContentKept(c) == \E l \in DOMAIN fs : fs[l].kind = "file" /\ fs[l].content = c

\* C19: in every state of a run, every content a scanned file held when the
\* run started is still held by a regular file somewhere; and the step that
\* removes a member's file is taken only while the store entry of the
\* group's hash is a regular file with the group's content, at another path
\* than the member's.
C19_BytesNeverLost ==
    /\ [](\A p \in Scanned : ContentKept(fs0[p.comps].content))
    /\ [][(pc = "member" /\ fs' # fs) =>
              /\ fs[StoreLoc(hash)].kind = "file"
              /\ Sha512(fs[StoreLoc(hash)].content) = hash
              /\ StoreLoc(hash) # Member.comps]_vars

====
